---- MODULE Spec2Model ----
(***************************************************************************)
(* branch-keeper: the clean, merge and fetch batch commands, the           *)
(* interactive delete and switch, the command line with its config file,   *)
(* and the git repository they act on.                                     *)
(*                                                                         *)
(* A string that the code splits on "/" is a sequence of its segments:     *)
(* "origin/feature/a" is <<"origin", "feature", "a">>; the empty string is *)
(* << >>.  Every external git command either succeeds or fails; which one  *)
(* is the environment's choice, within what git allows.                    *)
(***************************************************************************)
EXTENDS Integers, Sequences, FiniteSets, TLC

VARIABLES
    cmd,              \* what runs: "clean", "merge", "fetch", "delete",
                      \* "switch", or a call of "checkoutBranch"
    options,          \* the merged options handed to the command
    pc,               \* the position of the command's async function
    localBranches,    \* repository: the set of local branch names
    head,             \* repository: the checked-out branch, or Detached
    dirty,            \* repository: git status --porcelain prints something
    upstreamOf,       \* repository: each local branch's %(upstream:short)
    remoteHeads,      \* remotes: remote name -> the branch names it advertises
    unpushed,         \* repository: source has commits on no remote
    tip,              \* repository: each branch's tip, as the commits it reaches
    currentBranch,    \* const currentBranch
    trackingBranches, \* let trackingBranches (clean)
    remotesSet,       \* the remotes of remotesSet not yet iterated (clean)
    remoteBranchMap,  \* const remoteBranchMap (clean)
    branchesToDelete, \* const branchesToDelete (clean)
    targetBranches,   \* let targetBranches (merge)
    remoteBranches,   \* let remoteBranches (fetch)
    branches,         \* const branches (delete)
    selectedBranches, \* let selectedBranches (delete)
    prompts,          \* the answers given at the prompts shown, in order
    idx,              \* the executing loop's position in its list
    successCount,     \* let successCount
    failCount,        \* let failCount
    gitLog,           \* every mutating git command issued, in order
    queries,          \* every `git ls-remote --heads <remote>` issued, in order
    attempted,        \* the items handed to deleteBranch/mergeBranch/createTrackingBranch
    errorLog,         \* the error-level messages logged
    summary,          \* the final summary line's counts, or NoSummary
    exitCode,         \* how the command ended: NoExit, Returned, Exit0, Exit1
    returnedFrom,     \* the position the command ended at
    inFlight,         \* the git commands started and not yet ended
    origHead,         \* the value of head when the command started
    origLocal,        \* the value of localBranches when the command started
    origTip,          \* the value of tip when the command started
    origDirty,        \* the value of dirty when the command started
    targetBranch,     \* const targetBranch (switch), branch (checkoutBranch)
    stash,            \* repository: the number of entries of git stash
    checkoutSuccess,  \* const success (switch), checkoutBranch's return value
    argv,             \* the options typed on the command line, by name
    configFiles,      \* the working directory: for each name of configFiles
                      \* in order, what the file is
    config            \* const config of the command action

vars == <<cmd, options, pc, localBranches, head, dirty, upstreamOf, remoteHeads,
          unpushed, currentBranch, trackingBranches, remotesSet, remoteBranchMap,
          branchesToDelete, targetBranches, remoteBranches, idx, successCount,
          failCount, gitLog, queries, attempted, errorLog, summary, exitCode,
          returnedFrom, origHead, origLocal, tip, origTip, branches,
          selectedBranches, prompts, inFlight, origDirty, targetBranch,
          stash, checkoutSuccess, argv, configFiles, config>>

repoVars == <<localBranches, head, dirty, upstreamOf, remoteHeads, unpushed,
              tip>>
cleanVars == <<trackingBranches, remotesSet, remoteBranchMap, branchesToDelete>>
mergeVars == <<targetBranches>>
fetchVars == <<remoteBranches>>
deleteVars == <<branches, selectedBranches>>
countVars == <<idx, successCount, failCount, attempted>>
exitVars == <<exitCode, returnedFrom, inFlight>>
endVars == <<summary, exitCode, returnedFrom, inFlight>>
inputVars == <<cmd, options, origHead, origLocal, origTip, origDirty>>
switchVars == <<targetBranch, stash, checkoutSuccess>>
cliVars == <<argv, configFiles, config>>

----------------------------------------------------------------------------
(* Names *)

EmptyString == << >>
Detached == <<"(detached)">>
HEADName == <<"HEAD">>
NullUpstream == <<"(null)">>

main == <<"main">>
dev == <<"dev">>
hotfix == <<"hotfix">>
featureA == <<"feature", "a">>
featureB == <<"feature", "b">>
featureC == <<"feature", "c">>
nosuch == <<"nosuch">>

\* git lists refs sorted by name
RefOrder == <<dev, featureA, featureB, featureC, hotfix, main>>

----------------------------------------------------------------------------
(* Array helpers *)

Includes(arr, x) == \E i \in 1..Len(arr) : arr[i] = x

Range(arr) == {arr[i] : i \in 1..Len(arr)}

RECURSIVE Distinct(_)
Distinct(arr) ==
    IF arr = << >> THEN << >>
    ELSE LET rest == Distinct(SubSeq(arr, 1, Len(arr) - 1))
             last == arr[Len(arr)]
         IN IF Includes(rest, last) THEN rest ELSE Append(rest, last)

ListRefs(S) ==
    LET In(b) == b \in S IN SelectSeq(RefOrder, In)

----------------------------------------------------------------------------
(* The git repository: what the read-only commands print *)

\* git rev-parse --abbrev-ref HEAD
RevParseAbbrevRefHead == IF head = Detached THEN HEADName ELSE head

\* git for-each-ref --format="%(refname:short) %(upstream:short)" refs/heads
\* one line per local branch, each line split on " " after trim(); the
\* output ends with a line break, so split("\n") yields a last empty line
ForEachRefLines ==
    LET refs == ListRefs(localBranches)
        Line(b) == IF upstreamOf[b] = EmptyString THEN <<b>>
                   ELSE <<b, upstreamOf[b]>>
    IN [i \in 1..Len(refs) |-> Line(refs[i])] \o <<(<<EmptyString>>)>>

\* git ls-remote --heads <remote>: "<sha>\trefs/heads/<name>" per branch,
\* each line split on "\t"; the last line is empty
LsRemoteLines(remote) ==
    LET refs == ListRefs(remoteHeads[remote])
        Line(b) == <<(<<"sha">>), <<"refs", "heads">> \o b>>
    IN [i \in 1..Len(refs) |-> Line(refs[i])] \o <<(<<EmptyString>>)>>

\* git branch --format='%(refname:short)'
GitBranchLines == ListRefs(localBranches) \o <<EmptyString>>

\* String.prototype.replace("refs/heads/", ""): the first occurrence
ReplaceRefsHeads(ref) ==
    IF \E i \in 1..(Len(ref) - 1) : ref[i] = "refs" /\ ref[i + 1] = "heads"
    THEN LET i == CHOOSE k \in 1..(Len(ref) - 1) :
                      /\ ref[k] = "refs" /\ ref[k + 1] = "heads"
                      /\ \A j \in 1..(k - 1) :
                            ~(ref[j] = "refs" /\ ref[j + 1] = "heads")
         IN SubSeq(ref, 1, i - 1) \o SubSeq(ref, i + 2, Len(ref))
    ELSE ref

----------------------------------------------------------------------------
(* utils.js *)

NoSummary == [printed |-> FALSE, succeeded |-> 0, failed |-> 0]
Summary(succeeded, failed) ==
    [printed |-> TRUE, succeeded |-> succeeded, failed |-> failed]
NoExit == "running"
Returned == "returned"
Exit0 == "exit 0"
Exit1 == "exit 1"

\* getCurrentBranch: stdout.trim(), or "" when the command fails
GetCurrentBranch(ok) == IF ok THEN RevParseAbbrevRefHead ELSE EmptyString

IsProtectedBranch(branch, protectedBranches) ==
    Includes(protectedBranches, branch)

\* git branch -d|-D <branch> can succeed only on an existing branch that is
\* not checked out
CanDelete(branch) == branch \in localBranches /\ branch # head

Logged(msgs) == errorLog' = errorLog \cup msgs

\* the async function returns, or calls process.exit, while the commands
\* of `running` have not ended
EndWhile(code, running) ==
    /\ pc' = "done" /\ exitCode' = code /\ returnedFrom' = pc
    /\ inFlight' = running

\* the async function returns, or calls process.exit
End(code) == EndWhile(code, inFlight)

\* a failed status query taken for a clean worktree
HasUncommittedChangesFailOpen(ok) == IF ok THEN dirty ELSE FALSE

\* hasUncommittedChanges: on failure returns true
HasUncommittedChanges(ok) == IF ok THEN dirty ELSE TRUE

\* hasUnpushedCommits(branch): on failure returns true
HasUnpushedCommits(branch, ok) == IF ok THEN unpushed ELSE TRUE

\* branchExists: git show-ref --verify fails on a missing ref
BranchExists(branch, ok) == ok /\ branch \in localBranches

\* git checkout <name> can succeed on a local branch; `git checkout HEAD`
\* and `git checkout` with no name succeed and switch nothing
CanCheckout(name) ==
    name \in localBranches \/ name = HEADName \/ name = EmptyString

HeadAfterCheckout(name) == IF name \in localBranches THEN name ELSE head

\* a mutating command as issued: head is what was checked out at that moment
GitCmd(op, arg, ok) == [op |-> op, arg |-> arg, head |-> head, ok |-> ok]

\* deleteBranch leaving the branch it is on before it deletes
DeleteBranchSwitchesAway(branch, force, ok) ==
    /\ ok => CanDelete(branch)
    /\ gitLog' = gitLog \o
         <<GitCmd("checkout", main, TRUE),
           GitCmd(IF force THEN "branch -D" ELSE "branch -d", branch, ok)>>
    /\ localBranches' = IF ok THEN localBranches \ {branch} ELSE localBranches
    /\ Logged(IF ok THEN {} ELSE {"delete failed"})

\* deleteBranch(branch, force): one `git branch -d|-D`; the outcome is counted
\* by the caller's loop
DeleteBranch(branch, force, ok) ==
    /\ ok => CanDelete(branch)
    /\ gitLog' = Append(gitLog,
                    GitCmd(IF force THEN "branch -D" ELSE "branch -d", branch, ok))
    /\ localBranches' = IF ok THEN localBranches \ {branch} ELSE localBranches
    /\ Logged(IF ok THEN {} ELSE {"delete failed"})

----------------------------------------------------------------------------
(* clean.js: cleanBranches *)

\* the filter without its "(null)" test
HasUpstreamKeepsNull(line) ==
    /\ Len(line) >= 1 /\ line[1] # EmptyString
    /\ Len(line) >= 2 /\ line[2] # EmptyString

\* .filter(([branch, upstream]) => branch && upstream && upstream !== "(null)")
HasUpstream(line) ==
    /\ Len(line) >= 1 /\ line[1] # EmptyString
    /\ Len(line) >= 2 /\ line[2] # EmptyString
    /\ line[2] # NullUpstream

ParseTrackingBranches(lines) == SelectSeq(lines, HasUpstream)

\* one entry per tracked branch instead of one per distinct remote
RemotesOfPerBranch(tracking) ==
    [i \in 1..Len(tracking) |-> Head(tracking[i][2])]

\* new Set(trackingBranches.map(([_, upstream]) => upstream.split("/")[0]))
RemotesOf(tracking) ==
    Distinct([i \in 1..Len(tracking) |-> Head(tracking[i][2])])

\* the Set built from one remote's ls-remote lines
ParseRemoteBranchSet(lines) ==
    {ReplaceRefsHeads(lines[i][2]) :
        i \in {k \in 1..Len(lines) : Len(lines[k]) >= 2}} \ {EmptyString}

\* the policy filter without its protected-branch test
ShouldSkipUnprotected(branch, cur, ignore, protectedBranches) ==
    \/ branch = cur
    \/ Includes(ignore, branch)

\* branch === currentBranch || ignore.includes(branch) || isProtectedBranch(...)
ShouldSkip(branch, cur, ignore, protectedBranches) ==
    \/ branch = cur
    \/ Includes(ignore, branch)
    \/ IsProtectedBranch(branch, protectedBranches)

\* the lookup made with the whole upstream, the remote not removed
ExistsOnRemoteFullName(upstream, map) ==
    LET remote == Head(upstream)
    IN remote \in DOMAIN map /\ upstream \in map[remote]

\* a remote whose listing is empty or missing taken to have every branch
ExistsOnRemoteFailSafe(upstream, map) ==
    LET remote == Head(upstream)
        remoteBranch == Tail(upstream)
    IN \/ remote \notin DOMAIN map
       \/ map[remote] = {}
       \/ remoteBranch \in map[remote]

\* branchSet && branchSet.has(remoteBranch)
ExistsOnRemote(upstream, map) ==
    LET remote == Head(upstream)
        remoteBranch == Tail(upstream)
    IN remote \in DOMAIN map /\ remoteBranch \in map[remote]

\* the plan built in the reverse of the listing order
PlanDeletionReversed(tracking, cur, ignore, protectedBranches, map) ==
    LET Stale(pair) ==
            /\ ~ShouldSkip(pair[1], cur, ignore, protectedBranches)
            /\ ~ExistsOnRemote(pair[2], map)
        stale == SelectSeq(tracking, Stale)
    IN [i \in 1..Len(stale) |-> stale[Len(stale) + 1 - i][1]]

\* the classification loop: branchesToDelete.push(branch) in listing order
PlanDeletion(tracking, cur, ignore, protectedBranches, map) ==
    LET Stale(pair) ==
            /\ ~ShouldSkip(pair[1], cur, ignore, protectedBranches)
            /\ ~ExistsOnRemote(pair[2], map)
        stale == SelectSeq(tracking, Stale)
    IN [i \in 1..Len(stale) |-> stale[i][1]]

CleanCheckWorkingDirectory ==
    /\ cmd = "clean" /\ pc = "start"
    /\ \E isRepo \in BOOLEAN :
         IF isRepo
         THEN pc' = "capture" /\ UNCHANGED <<errorLog, exitVars>>
         ELSE /\ End(Returned)
              /\ Logged({"not a repository"})
    /\ UNCHANGED <<inputVars, cliVars, switchVars, deleteVars, prompts,
                   repoVars, currentBranch, cleanVars, mergeVars,
                   fetchVars, countVars, gitLog, queries, summary>>

CleanGetCurrentBranch ==
    /\ cmd = "clean" /\ pc = "capture"
    /\ \E ok \in BOOLEAN :
         /\ currentBranch' = GetCurrentBranch(ok)
         /\ Logged(IF ok THEN {} ELSE {"current branch failed"})
    /\ pc' = "tracking"
    /\ UNCHANGED <<inputVars, cliVars, switchVars, deleteVars, prompts,
                   repoVars, cleanVars, mergeVars, fetchVars,
                   countVars, gitLog, queries, endVars>>

CleanTrackingQuery ==
    /\ cmd = "clean" /\ pc = "tracking"
    /\ \E ok \in BOOLEAN :
         IF ok
         THEN /\ trackingBranches' = ParseTrackingBranches(ForEachRefLines)
              /\ remotesSet' = RemotesOf(trackingBranches')
              /\ pc' = "cache"
              /\ UNCHANGED <<errorLog, exitVars>>
         ELSE /\ End(Returned)
              /\ Logged({"tracking query failed"})
              /\ UNCHANGED <<trackingBranches, remotesSet>>
    /\ UNCHANGED <<inputVars, cliVars, switchVars, deleteVars, prompts,
                   repoVars, currentBranch, remoteBranchMap,
                   branchesToDelete, mergeVars, fetchVars, countVars, gitLog,
                   queries, summary>>

MapSet(map, key, value) ==
    [k \in DOMAIN map \cup {key} |-> IF k = key THEN value ELSE map[k]]

CleanQueryRemote ==
    /\ cmd = "clean" /\ pc = "cache" /\ remotesSet # << >>
    /\ LET remote == Head(remotesSet) IN
         /\ queries' = Append(queries, remote)
         /\ \E ok \in BOOLEAN :
              /\ ok => remote \in DOMAIN remoteHeads
              /\ IF ok
                 THEN /\ remoteBranchMap' =
                           MapSet(remoteBranchMap, remote,
                                  ParseRemoteBranchSet(LsRemoteLines(remote)))
                      /\ UNCHANGED errorLog
                 ELSE /\ remoteBranchMap' = MapSet(remoteBranchMap, remote, {})
                      /\ Logged({"ls-remote failed"})
    /\ remotesSet' = Tail(remotesSet)
    /\ UNCHANGED <<inputVars, cliVars, switchVars, deleteVars, prompts,
                   repoVars, currentBranch, trackingBranches,
                   branchesToDelete, mergeVars, fetchVars, countVars, gitLog,
                   pc, endVars>>

\* the plan step going on to the prompt although listOnly is set
CleanPlanNoListOnly ==
    /\ cmd = "clean" /\ pc = "cache" /\ remotesSet = << >>
    /\ branchesToDelete' =
           PlanDeletion(trackingBranches, currentBranch, options.ignore,
                        options.protectedBranches, remoteBranchMap)
    /\ IF Len(branchesToDelete') = 0
       THEN End(Returned)
       ELSE /\ pc' = IF ~options.silent THEN "confirm" ELSE "delete"
            /\ UNCHANGED exitVars
    /\ UNCHANGED <<inputVars, cliVars, switchVars, deleteVars, prompts,
                   repoVars, currentBranch, trackingBranches,
                   remotesSet, remoteBranchMap, mergeVars, fetchVars, countVars,
                   gitLog, queries, errorLog, summary>>

CleanPlan ==
    /\ cmd = "clean" /\ pc = "cache" /\ remotesSet = << >>
    /\ branchesToDelete' =
           PlanDeletion(trackingBranches, currentBranch, options.ignore,
                        options.protectedBranches, remoteBranchMap)
    /\ IF Len(branchesToDelete') = 0 \/ options.listOnly
       THEN End(Returned)
       ELSE /\ pc' = IF ~options.silent THEN "confirm" ELSE "delete"
            /\ UNCHANGED exitVars
    /\ UNCHANGED <<inputVars, cliVars, switchVars, deleteVars, prompts,
                   repoVars, currentBranch, trackingBranches,
                   remotesSet, remoteBranchMap, mergeVars, fetchVars, countVars,
                   gitLog, queries, errorLog, summary>>

\* the prompt going on to the delete loop whatever the reply
CleanConfirmIgnoresReply ==
    /\ cmd = "clean" /\ pc = "confirm"
    /\ \E confirm \in BOOLEAN :
         prompts' = Append(prompts, IF confirm THEN "yes" ELSE "no")
    /\ pc' = "delete"
    /\ UNCHANGED <<inputVars, cliVars, switchVars, deleteVars, exitVars,
                   repoVars, currentBranch, cleanVars, mergeVars,
                   fetchVars, countVars, gitLog, queries, errorLog, summary>>

\* the prompt "是否继续删除这些分支？(y/N)": confirm is whether the reply is "y"
CleanConfirm ==
    /\ cmd = "clean" /\ pc = "confirm"
    /\ \E confirm \in BOOLEAN :
         /\ prompts' = Append(prompts, IF confirm THEN "yes" ELSE "no")
         /\ IF confirm
            THEN pc' = "delete" /\ UNCHANGED exitVars
            ELSE End(Exit0)
    /\ UNCHANGED <<inputVars, cliVars, switchVars, deleteVars,
                   repoVars, currentBranch, cleanVars, mergeVars,
                   fetchVars, countVars, gitLog, queries, errorLog, summary>>

\* the delete loop leaving at the first failed delete
CleanDeleteItemStopsOnFailure ==
    /\ cmd = "clean" /\ pc = "delete" /\ idx <= Len(branchesToDelete)
    /\ LET branch == branchesToDelete[idx] IN
         /\ attempted' = Append(attempted, branch)
         /\ \E success \in BOOLEAN :
              /\ DeleteBranch(branch, options.force, success)
              /\ successCount' = IF success THEN successCount + 1 ELSE successCount
              /\ failCount' = IF success THEN failCount ELSE failCount + 1
              /\ idx' = IF success THEN idx + 1 ELSE Len(branchesToDelete) + 1
    /\ UNCHANGED <<inputVars, cliVars, switchVars, deleteVars, prompts,
                   head, dirty, upstreamOf, remoteHeads, unpushed,
                   tip, currentBranch, cleanVars, mergeVars, fetchVars, queries, pc,
                   endVars>>

\* the delete loop taking its items from the tracking-pair listing
CleanDeleteItemFromListing ==
    /\ cmd = "clean" /\ pc = "delete" /\ idx <= Len(branchesToDelete)
    /\ LET branch == trackingBranches[idx][1] IN
         /\ attempted' = Append(attempted, branch)
         /\ \E success \in BOOLEAN :
              /\ DeleteBranch(branch, options.force, success)
              /\ successCount' = IF success THEN successCount + 1 ELSE successCount
              /\ failCount' = IF success THEN failCount ELSE failCount + 1
    /\ idx' = idx + 1
    /\ UNCHANGED <<inputVars, cliVars, switchVars, deleteVars, prompts,
                   head, dirty, upstreamOf, remoteHeads, unpushed,
                   tip, currentBranch, cleanVars, mergeVars, fetchVars, queries, pc,
                   endVars>>

\* for (const branch of branchesToDelete): await deleteBranch(branch, force)
CleanDeleteItem ==
    /\ cmd = "clean" /\ pc = "delete" /\ idx <= Len(branchesToDelete)
    /\ LET branch == branchesToDelete[idx] IN
         /\ attempted' = Append(attempted, branch)
         /\ \E success \in BOOLEAN :
              /\ DeleteBranch(branch, options.force, success)
              /\ successCount' = IF success THEN successCount + 1 ELSE successCount
              /\ failCount' = IF success THEN failCount ELSE failCount + 1
    /\ idx' = idx + 1
    /\ UNCHANGED <<inputVars, cliVars, switchVars, deleteVars, prompts,
                   head, dirty, upstreamOf, remoteHeads, unpushed,
                   tip, currentBranch, cleanVars, mergeVars, fetchVars, queries, pc,
                   endVars>>

\* updateRemoteBranch(silent, options) as cleanBranches calls it, without
\* await: `git fetch -p` is started and the caller goes on
UpdateRemoteBranch == {"fetch -p"}

\* after the loop: the refresh and the summary unless silent, then
\* process.exit(0)
CleanFinish ==
    /\ cmd = "clean" /\ pc = "delete" /\ idx > Len(branchesToDelete)
    /\ summary' = IF ~options.silent THEN Summary(successCount, failCount)
                  ELSE summary
    /\ EndWhile(Exit0, IF ~options.silent THEN inFlight \cup UpdateRemoteBranch
                       ELSE inFlight)
    /\ UNCHANGED <<inputVars, cliVars, switchVars, deleteVars, prompts,
                   repoVars, currentBranch, cleanVars, mergeVars,
                   fetchVars, countVars, gitLog, queries, errorLog>>

----------------------------------------------------------------------------
(* merge.js: mergeToBranches *)

\* what checkWorkingDirectory and the queries it makes log
WorkingDirectoryLog(isRepo, statusOk) ==
    IF ~isRepo THEN {"not a repository"}
    ELSE (IF statusOk THEN {} ELSE {"status query failed"}) \cup
         (IF HasUncommittedChanges(statusOk) THEN {"uncommitted changes"}
          ELSE {})

\* the caller goes on although checkWorkingDirectory returned false
CheckWorkingDirectoryNoReturn(next) ==
    /\ pc = "start"
    /\ \E isRepo \in BOOLEAN, statusOk \in BOOLEAN :
         /\ Logged(WorkingDirectoryLog(isRepo, statusOk))
         /\ IF ~isRepo THEN End(Returned)
            ELSE pc' = next /\ UNCHANGED exitVars
    /\ UNCHANGED <<inputVars, cliVars, switchVars, deleteVars, prompts,
                   repoVars, currentBranch, cleanVars, mergeVars,
                   fetchVars, countVars, gitLog, queries, summary>>

\* checkWorkingDirectory of merge.js and fetch.js, and the caller's return
CheckWorkingDirectory(next) ==
    /\ pc = "start"
    /\ \E isRepo \in BOOLEAN, statusOk \in BOOLEAN :
         /\ Logged(WorkingDirectoryLog(isRepo, statusOk))
         /\ IF ~isRepo \/ HasUncommittedChanges(statusOk)
            THEN End(Returned)
            ELSE pc' = next /\ UNCHANGED exitVars
    /\ UNCHANGED <<inputVars, cliVars, switchVars, deleteVars, prompts,
                   repoVars, currentBranch, cleanVars, mergeVars,
                   fetchVars, countVars, gitLog, queries, summary>>

MergeCheckWorkingDirectory == cmd = "merge" /\ CheckWorkingDirectory("source")

MergeCheckSourceBranch ==
    /\ cmd = "merge" /\ pc = "source"
    /\ \E existsOk \in BOOLEAN, logOk \in BOOLEAN :
         IF ~BranchExists(options.source, existsOk)
         THEN /\ End(Returned)
              /\ Logged({"source missing"})
         ELSE /\ Logged((IF logOk THEN {} ELSE {"unpushed query failed"}) \cup
                        (IF HasUnpushedCommits(options.source, logOk)
                         THEN {"source unpushed"} ELSE {}))
              /\ IF HasUnpushedCommits(options.source, logOk)
                 THEN End(Returned)
                 ELSE pc' = "capture" /\ UNCHANGED exitVars
    /\ UNCHANGED <<inputVars, cliVars, switchVars, deleteVars, prompts,
                   repoVars, currentBranch, cleanVars, mergeVars,
                   fetchVars, countVars, gitLog, queries, summary>>

\* stdout.split("\n").filter(Boolean)
NonEmptyLines(lines) ==
    LET NonEmpty(line) == line # EmptyString IN SelectSeq(lines, NonEmpty)

\* the filter without its exclude test
FilterTargetsKeepsExcluded(targets, source, exclude) ==
    LET Keep(branch) == branch # source
    IN SelectSeq(targets, Keep)

\* targetBranches.filter((branch) => branch !== source && !exclude.includes(branch))
FilterTargets(targets, source, exclude) ==
    LET Keep(branch) == branch # source /\ ~Includes(exclude, branch)
    IN SelectSeq(targets, Keep)

MergePlan ==
    /\ cmd = "merge" /\ pc = "capture"
    /\ \E headOk \in BOOLEAN, listOk \in BOOLEAN :
         /\ currentBranch' = GetCurrentBranch(headOk)
         /\ IF Len(options.target) = 0 /\ ~listOk
            THEN /\ End(Returned)
                 /\ Logged((IF headOk THEN {} ELSE {"current branch failed"})
                           \cup {"branch list failed"})
                 /\ UNCHANGED targetBranches
            ELSE /\ targetBranches' =
                      FilterTargets(IF Len(options.target) = 0
                                    THEN NonEmptyLines(GitBranchLines)
                                    ELSE options.target,
                                    options.source, options.exclude)
                 /\ Logged(IF headOk THEN {} ELSE {"current branch failed"})
                 /\ IF Len(targetBranches') = 0
                    THEN End(Returned)
                    ELSE pc' = "merge" /\ UNCHANGED exitVars
    /\ UNCHANGED <<inputVars, cliVars, switchVars, deleteVars, prompts,
                   repoVars, cleanVars, fetchVars, countVars, gitLog,
                   queries, summary>>

MergeCommand(ffOnly) == IF ffOnly THEN "merge --ff-only" ELSE "merge --no-ff"

\* the commit `git merge --no-ff <from>` records on the branch `onto`
MergeCommit(from, onto) == <<"merge">> \o from \o <<"into">> \o onto

\* git merge --ff-only <from> refuses when the checked-out branch `onto`
\* and `from` have diverged; a detached HEAD has the commit the run started at
CanMerge(from, onto, ffOnly) ==
    /\ from \in localBranches
    /\ (ffOnly /\ onto \in localBranches) =>
           (tip[from] \subseteq tip[onto] \/ tip[onto] \subseteq tip[from])

\* the tips after a successful git merge of `from` with `onto` checked out:
\* already up to date, a fast-forward, or with --no-ff a merge commit
TipsAfterMerge(from, onto, ffOnly) ==
    IF onto \notin localBranches \/ tip[from] \subseteq tip[onto] THEN tip
    ELSE IF ffOnly THEN [tip EXCEPT ![onto] = tip[from]]
    ELSE [tip EXCEPT ![onto] = tip[onto] \cup tip[from]
                                  \cup {MergeCommit(from, onto)}]

\* mergeBranch(source, target, options): git checkout ${target}, then
\* git merge ${source}; an exception of either command returns false
MergeBranch(source, target, ffOnly, checkoutOk, mergeOk) ==
    /\ checkoutOk => CanCheckout(target)
    /\ mergeOk => checkoutOk /\ CanMerge(source, HeadAfterCheckout(target), ffOnly)
    /\ head' = IF checkoutOk THEN HeadAfterCheckout(target) ELSE head
    /\ tip' = IF mergeOk THEN TipsAfterMerge(source, head', ffOnly) ELSE tip
    /\ gitLog' =
         IF checkoutOk
         THEN gitLog \o <<GitCmd("checkout", target, TRUE),
                          [op |-> MergeCommand(ffOnly), arg |-> source,
                           head |-> head', ok |-> mergeOk]>>
         ELSE Append(gitLog, GitCmd("checkout", target, FALSE))
    /\ Logged(IF mergeOk THEN {} ELSE {"merge failed"})

MergeItem ==
    /\ cmd = "merge" /\ pc = "merge" /\ idx <= Len(targetBranches)
    /\ LET branch == targetBranches[idx] IN
         /\ attempted' = Append(attempted, branch)
         /\ \E checkoutOk \in BOOLEAN, success \in BOOLEAN :
              /\ MergeBranch(branch, options.source, options.ffOnly,
                             checkoutOk, success)
              /\ successCount' = IF success THEN successCount + 1 ELSE successCount
              /\ failCount' = IF success THEN failCount ELSE failCount + 1
    /\ idx' = idx + 1
    /\ UNCHANGED <<inputVars, cliVars, switchVars, deleteVars, prompts,
                   localBranches, dirty, upstreamOf, remoteHeads,
                   unpushed, currentBranch, cleanVars, mergeVars, fetchVars,
                   queries, pc, endVars>>

\* the end of the run without the checkout back
ReturnToOriginalBranchNoCheckout ==
    /\ UNCHANGED <<head, gitLog, errorLog>>
    /\ summary' = IF ~options.silent /\ options.debug
                  THEN Summary(successCount, failCount) ELSE summary
    /\ End(Returned)

\* 返回原分支: git checkout ${currentBranch}, then the summary
ReturnToOriginalBranch ==
    /\ \E ok \in BOOLEAN :
         /\ ok => CanCheckout(currentBranch)
         /\ head' = IF ok THEN HeadAfterCheckout(currentBranch) ELSE head
         /\ gitLog' = Append(gitLog, GitCmd("checkout", currentBranch, ok))
         /\ Logged(IF ok THEN {} ELSE {"return to original branch failed"})
    /\ summary' = IF ~options.silent /\ options.debug
                  THEN Summary(successCount, failCount) ELSE summary
    /\ End(Returned)

MergeRestore ==
    /\ cmd = "merge" /\ pc = "merge" /\ idx > Len(targetBranches)
    /\ ReturnToOriginalBranch
    /\ UNCHANGED <<inputVars, cliVars, switchVars, deleteVars, prompts,
                   localBranches, dirty, upstreamOf, remoteHeads,
                   unpushed, tip, currentBranch, cleanVars, mergeVars,
                   fetchVars, countVars, queries>>

----------------------------------------------------------------------------
(* fetch.js: fetchAllBranches *)

FetchCheckWorkingDirectory == cmd = "fetch" /\ CheckWorkingDirectory("capture")

\* getRemoteBranches: lines.filter(Boolean).map(split("\t")[1].replace(...)),
\* or [] when the command fails
GetRemoteBranches(remote, ok) ==
    LET NonEmpty(line) == line # <<EmptyString>>
        lines == SelectSeq(LsRemoteLines(remote), NonEmpty)
    IN IF ok THEN [i \in 1..Len(lines) |-> ReplaceRefsHeads(lines[i][2])]
       ELSE << >>

FetchPlan ==
    /\ cmd = "fetch" /\ pc = "capture"
    /\ queries' = Append(queries, options.remote)
    /\ \E headOk \in BOOLEAN, listOk \in BOOLEAN :
         /\ listOk => options.remote \in DOMAIN remoteHeads
         /\ currentBranch' = GetCurrentBranch(headOk)
         /\ remoteBranches' = GetRemoteBranches(options.remote, listOk)
         /\ Logged((IF headOk THEN {} ELSE {"current branch failed"})
                   \cup (IF listOk THEN {} ELSE {"ls-remote failed"}))
    /\ IF Len(remoteBranches') = 0
       THEN End(Returned)
       ELSE pc' = "create" /\ UNCHANGED exitVars
    /\ UNCHANGED <<inputVars, cliVars, switchVars, deleteVars, prompts,
                   repoVars, cleanVars, mergeVars, countVars, gitLog,
                   summary>>

\* createTrackingBranch going on to the create after a failed delete
CreateTrackingBranchIgnoresDelete(branch, remote, force, existsOk, deleteOk, createOk, result) ==
    LET exists == BranchExists(branch, existsOk)
        deleting == exists /\ force
        afterDelete == IF deleting /\ deleteOk THEN localBranches \ {branch}
                       ELSE localBranches
        creating == (~exists) \/ deleting
        deleteCmd == IF deleting THEN <<GitCmd("branch -D", branch, deleteOk)>>
                     ELSE << >>
        createCmd == IF creating
                     THEN <<GitCmd("checkout -b", branch, createOk)>>
                     ELSE << >>
    IN /\ deleteOk => deleting /\ CanDelete(branch)
       /\ createOk => /\ creating
                      /\ branch \notin afterDelete
                      /\ branch \in remoteHeads[remote]
       /\ gitLog' = gitLog \o deleteCmd \o createCmd
       /\ localBranches' = IF createOk THEN afterDelete \cup {branch}
                           ELSE afterDelete
       /\ head' = IF createOk THEN branch ELSE head
       /\ result = IF exists /\ ~force THEN TRUE ELSE createOk
       /\ Logged(IF result THEN {} ELSE {"create failed"})

\* createTrackingBranch(branch, {remote, force}): the return value is `result`
CreateTrackingBranch(branch, remote, force, existsOk, deleteOk, createOk, result) ==
    LET exists == BranchExists(branch, existsOk)
        deleting == exists /\ force
        afterDelete == IF deleting /\ deleteOk THEN localBranches \ {branch}
                       ELSE localBranches
        creating == (~exists) \/ (deleting /\ deleteOk)
        deleteCmd == IF deleting THEN <<GitCmd("branch -D", branch, deleteOk)>>
                     ELSE << >>
        createCmd == IF creating
                     THEN <<GitCmd("checkout -b", branch, createOk)>>
                     ELSE << >>
    IN /\ deleteOk => deleting /\ CanDelete(branch)
       /\ createOk => /\ creating
                      /\ branch \notin afterDelete
                      /\ branch \in remoteHeads[remote]
       /\ gitLog' = gitLog \o deleteCmd \o createCmd
       /\ localBranches' = IF createOk THEN afterDelete \cup {branch}
                           ELSE afterDelete
       /\ head' = IF createOk THEN branch ELSE head
       /\ result = IF exists /\ ~force THEN TRUE ELSE createOk
       /\ Logged(IF result THEN {} ELSE {"create failed"})

\* the create loop without its ignore test
FetchItemNoIgnore ==
    /\ cmd = "fetch" /\ pc = "create" /\ idx <= Len(remoteBranches)
    /\ LET branch == remoteBranches[idx] IN
         /\ attempted' = Append(attempted, branch)
         /\ \E existsOk \in BOOLEAN, deleteOk \in BOOLEAN,
               createOk \in BOOLEAN, success \in BOOLEAN :
              /\ CreateTrackingBranch(branch, options.remote, options.force,
                                      existsOk, deleteOk, createOk, success)
              /\ successCount' =
                   IF success THEN successCount + 1 ELSE successCount
              /\ failCount' = IF success THEN failCount ELSE failCount + 1
    /\ idx' = idx + 1
    /\ UNCHANGED <<inputVars, cliVars, switchVars, deleteVars, prompts,
                   dirty, upstreamOf, remoteHeads, unpushed, tip,
                   currentBranch, cleanVars, mergeVars, fetchVars, queries, pc,
                   endVars>>

FetchItem ==
    /\ cmd = "fetch" /\ pc = "create" /\ idx <= Len(remoteBranches)
    /\ LET branch == remoteBranches[idx] IN
         IF Includes(options.ignore, branch)
         THEN UNCHANGED <<localBranches, head, gitLog, errorLog, attempted,
                          successCount, failCount>>
         ELSE /\ attempted' = Append(attempted, branch)
              /\ \E existsOk \in BOOLEAN, deleteOk \in BOOLEAN,
                    createOk \in BOOLEAN, success \in BOOLEAN :
                   /\ CreateTrackingBranch(branch, options.remote, options.force,
                                           existsOk, deleteOk, createOk, success)
                   /\ successCount' =
                        IF success THEN successCount + 1 ELSE successCount
                   /\ failCount' = IF success THEN failCount ELSE failCount + 1
    /\ idx' = idx + 1
    /\ UNCHANGED <<inputVars, cliVars, switchVars, deleteVars, prompts,
                   dirty, upstreamOf, remoteHeads, unpushed, tip,
                   currentBranch, cleanVars, mergeVars, fetchVars, queries, pc,
                   endVars>>

FetchRestore ==
    /\ cmd = "fetch" /\ pc = "create" /\ idx > Len(remoteBranches)
    /\ ReturnToOriginalBranch
    /\ UNCHANGED <<inputVars, cliVars, switchVars, deleteVars, prompts,
                   localBranches, dirty, upstreamOf, remoteHeads,
                   unpushed, tip, currentBranch, cleanVars, mergeVars,
                   fetchVars, countVars, queries>>

----------------------------------------------------------------------------
(* deleteBranches: the interactive delete *)

\* getLocalBranches: the non-empty lines of git branch, or [] on failure
GetLocalBranches(ok) == IF ok THEN NonEmptyLines(GitBranchLines) ELSE << >>

DeleteCheckWorkingDirectory ==
    /\ cmd = "delete" /\ pc = "start"
    /\ \E isRepo \in BOOLEAN :
         IF isRepo
         THEN pc' = "capture" /\ UNCHANGED <<errorLog, exitVars>>
         ELSE /\ End(Exit1)
              /\ Logged({"not a repository"})
    /\ UNCHANGED <<inputVars, cliVars, switchVars, deleteVars, prompts, repoVars, currentBranch,
                   cleanVars, mergeVars, fetchVars, countVars, gitLog, queries,
                   summary>>

\* currentBranch and branches; process.exit(0) with no branch or only one
DeleteGetBranches ==
    /\ cmd = "delete" /\ pc = "capture"
    /\ \E headOk \in BOOLEAN, listOk \in BOOLEAN :
         /\ currentBranch' = GetCurrentBranch(headOk)
         /\ branches' = GetLocalBranches(listOk)
         /\ Logged((IF headOk THEN {} ELSE {"current branch failed"})
                   \cup (IF listOk THEN {} ELSE {"local branch list failed"}))
    /\ IF Len(branches') <= 1
       THEN End(Exit0)
       ELSE pc' = "select" /\ UNCHANGED exitVars
    /\ UNCHANGED <<inputVars, cliVars, switchVars, selectedBranches, prompts, repoVars, cleanVars,
                   mergeVars, fetchVars, countVars, gitLog, queries, summary>>

\* the choices of the selection prompt that are not disabled
Enabled(list, cur) ==
    LET NotCurrent(branch) == branch # cur IN SelectSeq(list, NotCurrent)

\* what the selection prompt can return: with multi the checked choices, at
\* least one (validate), in the order of the choices; otherwise one choice
\* (a string that the code wraps into an array)
Selections(list, cur, multi) ==
    LET enabled == Range(Enabled(list, cur))
        Checked(S) == LET In(branch) == branch \in S IN SelectSeq(list, In)
    IN {Checked(S) : S \in {T \in SUBSET enabled :
                               IF multi THEN T # {} ELSE Cardinality(T) = 1}}

\* inquirer.prompt for selectedBranches; ExitPromptError is process.exit(0)
DeleteSelect ==
    /\ cmd = "delete" /\ pc = "select"
    /\ \/ /\ prompts' = Append(prompts, "interrupt")
          /\ End(Exit0)
          /\ UNCHANGED selectedBranches
       \/ /\ prompts' = Append(prompts, "selected")
          /\ selectedBranches' \in
                Selections(branches, currentBranch, options.multi)
          /\ pc' = "confirm" /\ UNCHANGED exitVars
    /\ UNCHANGED <<inputVars, cliVars, switchVars, branches, repoVars, currentBranch, cleanVars,
                   mergeVars, fetchVars, countVars, gitLog, queries, errorLog,
                   summary>>

\* inquirer.prompt for confirm: a reply of no returns, ExitPromptError is
\* process.exit(0)
DeleteConfirm ==
    /\ cmd = "delete" /\ pc = "confirm"
    /\ \E reply \in {"yes", "no", "interrupt"} :
         /\ prompts' = Append(prompts, reply)
         /\ CASE reply = "yes" -> pc' = "delete" /\ UNCHANGED exitVars
              [] reply = "no" -> End(Returned)
              [] reply = "interrupt" -> End(Exit0)
    /\ UNCHANGED <<inputVars, cliVars, switchVars, deleteVars, repoVars, currentBranch, cleanVars,
                   mergeVars, fetchVars, countVars, gitLog, queries, errorLog,
                   summary>>

DeleteItem ==
    /\ cmd = "delete" /\ pc = "delete" /\ idx <= Len(selectedBranches)
    /\ LET branch == selectedBranches[idx] IN
         /\ attempted' = Append(attempted, branch)
         /\ \E success \in BOOLEAN :
              /\ DeleteBranch(branch, options.force, success)
              /\ successCount' = IF success THEN successCount + 1 ELSE successCount
              /\ failCount' = IF success THEN failCount ELSE failCount + 1
    /\ idx' = idx + 1
    /\ UNCHANGED <<inputVars, cliVars, switchVars, deleteVars, prompts, head, dirty, upstreamOf,
                   remoteHeads, unpushed, tip, currentBranch, cleanVars,
                   mergeVars, fetchVars, queries, pc, endVars>>

\* console.info of the counts, then the function returns
DeleteFinish ==
    /\ cmd = "delete" /\ pc = "delete" /\ idx > Len(selectedBranches)
    /\ summary' = Summary(successCount, failCount)
    /\ End(Returned)
    /\ UNCHANGED <<inputVars, cliVars, switchVars, deleteVars, prompts, repoVars, currentBranch,
                   cleanVars, mergeVars, fetchVars, countVars, gitLog, queries,
                   errorLog>>

----------------------------------------------------------------------------
(* checkoutBranch, stashChanges and switchBranch: the interactive switch *)

\* the reset issued whether or not force was asked for
CheckoutBranchAlwaysResets(branch, force, statusOk, resetOk, checkoutOk) ==
    LET changes == HasUncommittedChanges(statusOk)
        reset == GitCmd("reset --hard", EmptyString, resetOk)
        checkout == GitCmd("checkout", branch, checkoutOk)
    IN IF changes /\ ~resetOk
       THEN /\ gitLog' = Append(gitLog, reset)
            /\ Logged({"checkout failed"})
            /\ checkoutSuccess' = FALSE
            /\ UNCHANGED <<head, dirty>>
       ELSE /\ checkoutOk => branch \in localBranches
            /\ gitLog' = gitLog \o (IF changes THEN <<reset>> ELSE << >>)
                                \o <<checkout>>
            /\ \E left \in BOOLEAN :
                 dirty' = IF changes THEN dirty /\ left ELSE dirty
            /\ head' = IF checkoutOk THEN branch ELSE head
            /\ Logged(IF checkoutOk THEN {} ELSE {"checkout failed"})
            /\ checkoutSuccess' = checkoutOk

\* checkoutBranch(branch, options, force): with changes in the worktree it
\* returns false unless force, and with force runs git reset --hard first;
\* then git checkout <branch>; a failed command is logged and returns false.
\* git reset --hard leaves untracked files where they are.
CheckoutBranch(branch, force, statusOk, resetOk, checkoutOk) ==
    LET changes == HasUncommittedChanges(statusOk)
        reset == GitCmd("reset --hard", EmptyString, resetOk)
        checkout == GitCmd("checkout", branch, checkoutOk)
    IN IF changes /\ ~force
       THEN /\ checkoutSuccess' = FALSE
            /\ UNCHANGED <<head, dirty, gitLog, errorLog>>
       ELSE IF changes /\ ~resetOk
       THEN /\ gitLog' = Append(gitLog, reset)
            /\ Logged({"checkout failed"})
            /\ checkoutSuccess' = FALSE
            /\ UNCHANGED <<head, dirty>>
       ELSE /\ checkoutOk => branch \in localBranches
            /\ gitLog' = gitLog \o (IF changes THEN <<reset>> ELSE << >>)
                                \o <<checkout>>
            /\ \E left \in BOOLEAN :
                 dirty' = IF changes THEN dirty /\ left ELSE dirty
            /\ head' = IF checkoutOk THEN branch ELSE head
            /\ Logged(IF checkoutOk THEN {} ELSE {"checkout failed"})
            /\ checkoutSuccess' = checkoutOk

\* a call of checkoutBranch on its own
CheckoutBranchCall ==
    /\ cmd = "checkoutBranch" /\ pc = "start"
    /\ \E statusOk \in BOOLEAN, resetOk \in BOOLEAN, checkoutOk \in BOOLEAN :
         CheckoutBranch(targetBranch, options.force, statusOk, resetOk,
                        checkoutOk)
    /\ End(Returned)
    /\ UNCHANGED <<inputVars, cliVars, deleteVars, prompts, targetBranch, stash,
                   localBranches, upstreamOf, remoteHeads, unpushed, tip,
                   currentBranch, cleanVars, mergeVars, fetchVars, countVars,
                   queries, summary>>

\* stashChanges(): git stash push; it saves the changes to tracked files
\* and leaves untracked files; a failure is logged and returns false
StashChanges(ok) ==
    /\ gitLog' = Append(gitLog, GitCmd("stash push", EmptyString, ok))
    /\ Logged(IF ok THEN {} ELSE {"stash failed"})
    /\ IF ok /\ dirty
       THEN \E left \in BOOLEAN :
              /\ dirty' = left
              /\ stash' \in IF left THEN {stash, stash + 1} ELSE {stash + 1}
       ELSE UNCHANGED <<dirty, stash>>

SwitchCheckWorkingDirectory ==
    /\ cmd = "switch" /\ pc = "start"
    /\ \E isRepo \in BOOLEAN :
         IF isRepo
         THEN pc' = "capture" /\ UNCHANGED <<errorLog, exitVars>>
         ELSE /\ End(Exit1)
              /\ Logged({"not a repository"})
    /\ UNCHANGED <<inputVars, cliVars, switchVars, deleteVars, prompts, repoVars,
                   currentBranch, cleanVars, mergeVars, fetchVars, countVars,
                   gitLog, queries, summary>>

\* currentBranch and branches; process.exit(0) with no branch or only one
SwitchGetBranches ==
    /\ cmd = "switch" /\ pc = "capture"
    /\ \E headOk \in BOOLEAN, listOk \in BOOLEAN :
         /\ currentBranch' = GetCurrentBranch(headOk)
         /\ branches' = GetLocalBranches(listOk)
         /\ Logged((IF headOk THEN {} ELSE {"current branch failed"})
                   \cup (IF listOk THEN {} ELSE {"local branch list failed"}))
    /\ IF Len(branches') = 0 \/ Len(branches') = 1
       THEN End(Exit0)
       ELSE pc' = "select" /\ UNCHANGED exitVars
    /\ UNCHANGED <<inputVars, cliVars, switchVars, selectedBranches, prompts, repoVars,
                   cleanVars, mergeVars, fetchVars, countVars, gitLog, queries,
                   summary>>

\* the list prompt: one choice that is not disabled; ExitPromptError is
\* process.exit(0)
SwitchSelect ==
    /\ cmd = "switch" /\ pc = "select"
    /\ \/ /\ prompts' = Append(prompts, "interrupt")
          /\ End(Exit0)
          /\ UNCHANGED targetBranch
       \/ /\ prompts' = Append(prompts, "selected")
          /\ targetBranch' \in Range(Enabled(branches, currentBranch))
          /\ pc' = "status" /\ UNCHANGED exitVars
    /\ UNCHANGED <<inputVars, cliVars, stash, checkoutSuccess, deleteVars, repoVars,
                   currentBranch, cleanVars, mergeVars, fetchVars, countVars,
                   gitLog, queries, errorLog, summary>>

\* if (await hasUncommittedChanges()): the confirm prompt; a reply of no and
\* ExitPromptError are process.exit(0); a reply of yes runs stashChanges(),
\* whose return value is not looked at
SwitchStash ==
    /\ cmd = "switch" /\ pc = "status"
    /\ \E statusOk \in BOOLEAN :
         IF HasUncommittedChanges(statusOk)
         THEN \E reply \in {"yes", "no", "interrupt"} :
                /\ prompts' = Append(prompts, reply)
                /\ IF reply = "yes"
                   THEN /\ \E ok \in BOOLEAN : StashChanges(ok)
                        /\ pc' = "checkout" /\ UNCHANGED exitVars
                   ELSE /\ End(Exit0)
                        /\ UNCHANGED <<dirty, stash, gitLog, errorLog>>
         ELSE /\ pc' = "checkout"
              /\ UNCHANGED <<prompts, dirty, stash, gitLog, errorLog, exitVars>>
    /\ UNCHANGED <<inputVars, cliVars, targetBranch, checkoutSuccess, deleteVars,
                   localBranches,
                   head, upstreamOf, remoteHeads, unpushed, tip, currentBranch,
                   cleanVars, mergeVars, fetchVars, countVars, queries,
                   summary>>

\* checkoutBranch(targetBranch, false, options): the options object arrives
\* as the parameter force and is truthy; the function returns either way
SwitchCheckout ==
    /\ cmd = "switch" /\ pc = "checkout"
    /\ \E statusOk \in BOOLEAN, resetOk \in BOOLEAN, checkoutOk \in BOOLEAN :
         CheckoutBranch(targetBranch, TRUE, statusOk, resetOk, checkoutOk)
    /\ End(Returned)
    /\ UNCHANGED <<inputVars, cliVars, deleteVars, prompts, targetBranch, stash,
                   localBranches, upstreamOf, remoteHeads, unpushed, tip,
                   currentBranch, cleanVars, mergeVars, fetchVars, countVars,
                   queries, summary>>

----------------------------------------------------------------------------
(* The environment: a git command that outlives the process *)

\* `git fetch -p` that was started and not awaited ends after process.exit;
\* no handler of the program is left to see how it ended
FetchPruneEnds ==
    /\ pc = "done" /\ "fetch -p" \in inFlight
    /\ inFlight' = inFlight \ {"fetch -p"}
    /\ \E ok \in BOOLEAN :
         gitLog' = Append(gitLog, GitCmd("fetch -p", EmptyString, ok))
    /\ UNCHANGED <<inputVars, cliVars, switchVars, deleteVars, prompts, repoVars, currentBranch,
                   cleanVars, mergeVars, fetchVars, countVars, queries, errorLog,
                   summary, pc, exitCode, returnedFrom>>

----------------------------------------------------------------------------
(* Initial states: a repository, a remote state and an option set *)

\* the number of local branches of the repository a run starts in
MaxBranches == 3

CleanPool == <<featureA, featureB, main, dev, hotfix, featureC>>
MergePool == <<dev, hotfix, main, featureA, featureB, featureC>>
FetchPool == <<featureA, main, dev, hotfix, featureB, featureC>>

\* config.js DEFAULT_CONFIG.protectedBranches
DefaultProtected == <<main, <<"master">>, <<"develop">>>>

UpstreamChoices(b) ==
    IF b = main THEN {<<"origin">> \o b, EmptyString}
    ELSE IF b = featureA THEN {<<"origin">> \o b, <<"fork">> \o b, EmptyString}
    ELSE {<<"origin">> \o b, NullUpstream}

Upstreams(locals) ==
    {f \in [Range(RefOrder) ->
              UNION {UpstreamChoices(b) : b \in Range(RefOrder)} \cup {EmptyString}] :
        \A b \in Range(RefOrder) :
            f[b] \in (IF b \in locals THEN UpstreamChoices(b) ELSE {EmptyString})}

\* commits: the one every branch starts from, one made on hotfix, one made
\* on another branch
BaseCommit == <<"base">>
HotfixCommit == <<"commit", "on", "hotfix">>
OtherCommit(b) == <<"commit", "on">> \o b

\* hotfix has its commit, the other branches have none of their own
NoCommitsSince ==
    [b \in Range(RefOrder) |->
        IF b = hotfix THEN {BaseCommit, HotfixCommit} ELSE {BaseCommit}]

\* a branch against hotfix: behind it, level with it, ahead of it, diverged
TipChoices(b) ==
    IF b = hotfix THEN {{BaseCommit, HotfixCommit}}
    ELSE IF b = dev
    THEN {{BaseCommit}, {BaseCommit, HotfixCommit},
          {BaseCommit, HotfixCommit, OtherCommit(b)},
          {BaseCommit, OtherCommit(b)}}
    ELSE {{BaseCommit}}

Tips ==
    {f \in [Range(RefOrder) -> UNION {TipChoices(b) : b \in Range(RefOrder)}] :
        \A b \in Range(RefOrder) : f[b] \in TipChoices(b)}

TrackingOrigin(locals) ==
    [b \in Range(RefOrder) |->
        IF b \in locals THEN <<"origin">> \o b ELSE EmptyString]

NoRemoteBranchMap == [r \in {} |-> {}]

\* the locals of a command before its first statement
FreshRun ==
    /\ currentBranch = EmptyString
    /\ trackingBranches = << >> /\ remotesSet = << >>
    /\ remoteBranchMap = NoRemoteBranchMap
    /\ branchesToDelete = << >> /\ targetBranches = << >>
    /\ remoteBranches = << >>
    /\ branches = << >> /\ selectedBranches = << >>
    /\ prompts = << >> /\ inFlight = {}
    /\ idx = 1 /\ successCount = 0 /\ failCount = 0
    /\ gitLog = << >> /\ queries = << >> /\ attempted = << >>
    /\ errorLog = {} /\ summary = NoSummary
    /\ exitCode = NoExit /\ returnedFrom = "nowhere"
    /\ origHead = head /\ origLocal = localBranches /\ origTip = tip
    /\ origDirty = dirty
    /\ stash = 0 /\ checkoutSuccess = FALSE

\* an object with no key
EmptyObject == [k \in {} |-> k]

\* a call of the command's function: no command line, no directory read
ProgramInit ==
    /\ pc = "start"
    /\ argv = EmptyObject /\ configFiles = << >> /\ config = EmptyObject
    /\ FreshRun

BaseOptions ==
    [ignore |-> << >>, force |-> FALSE, listOnly |-> FALSE, silent |-> FALSE,
     confirm |-> TRUE, multi |-> FALSE, debug |-> FALSE, protectedBranches |-> DefaultProtected,
     source |-> EmptyString, target |-> << >>, exclude |-> << >>,
     ffOnly |-> TRUE, remote |-> "origin"]

----------------------------------------------------------------------------
(* The command line: commander, loadConfig, validateConfig, mergeOptions *)

\* const DEFAULT_CONFIG
DEFAULT_CONFIG ==
    [protectedBranches |-> DefaultProtected, remotes |-> <<"origin">>,
     silent |-> FALSE, ignore |-> << >>, listOnly |-> FALSE,
     confirm |-> TRUE, force |-> FALSE, ffOnly |-> TRUE,
     mergeIgnore |-> << >>, fetchIgnore |-> << >>, fetchForce |-> FALSE]

\* obj.key ?? fallback, and obj.key || fallback for a value that is an array
OrElse(obj, key, fallback) == IF key \in DOMAIN obj THEN obj[key] ELSE fallback

\* { ...a, ...b }
Spread(a, b) ==
    [k \in DOMAIN a \cup DOMAIN b |-> IF k \in DOMAIN b THEN b[k] ELSE a[k]]

\* validateConfig: DEFAULT_CONFIG for what is not an object; otherwise an
\* object of the five keys branch, remote, clean, merge, fetch, each the
\* spread of DEFAULT_CONFIG's and the file's value under that key
ValidateConfig(isObject, parsed) ==
    IF ~isObject THEN DEFAULT_CONFIG
    ELSE [k \in {"branch", "remote", "clean", "merge", "fetch"} |->
             Spread(OrElse(DEFAULT_CONFIG, k, EmptyObject),
                    OrElse(parsed, k, EmptyObject))]

\* a file that cannot be parsed ending the search with an empty config
LoadConfigStopsAtMalformed(files) ==
    LET existing == {i \in 1..Len(files) : files[i].state # "absent"}
        first == CHOOSE i \in existing : \A j \in existing : i <= j
    IN IF existing = {} THEN DEFAULT_CONFIG
       ELSE IF files[first].state = "malformed" THEN EmptyObject
       ELSE ValidateConfig(files[first].state = "object",
                           files[first].content)

\* loadConfig: the first of configFiles that exists and parses, validated;
\* a file that throws is skipped (continue); DEFAULT_CONFIG when none is left
LoadConfig(files) ==
    LET parsed == {i \in 1..Len(files) :
                      files[i].state \notin {"absent", "malformed"}}
        first == CHOOSE i \in parsed : \A j \in parsed : i <= j
    IN IF parsed = {} THEN DEFAULT_CONFIG
       ELSE ValidateConfig(files[first].state = "object",
                           files[first].content)

\* the defaults commander gives the options of a command: a negatable
\* option (--no-confirm, --no-ff) is true, an option declared with a
\* default value has it
CommanderDefaults(command) ==
    CASE command = "clean" -> [confirm |-> TRUE]
      [] command = "merge" ->
            [target |-> << >>, exclude |-> << >>, ff |-> TRUE]
      [] command = "fetch" -> [remote |-> "origin", ignore |-> << >>]

\* the options object commander hands to the action
Commander(command, typed) == Spread(CommanderDefaults(command), typed)

\* mergeOptions(cliOptions, config)
MergeOptions(cliOptions, cfg) ==
    [silent |-> OrElse(cliOptions, "silent", OrElse(cfg, "silent", FALSE)),
     remotes |-> OrElse(cliOptions, "remote", OrElse(cfg, "remotes", << >>)),
     ignore |-> OrElse(cliOptions, "ignore", << >>)
                   \o OrElse(cfg, "ignore", << >>),
     listOnly |-> OrElse(cliOptions, "listOnly",
                         OrElse(cfg, "listOnly", FALSE)),
     confirm |-> OrElse(cliOptions, "confirm", OrElse(cfg, "confirm", TRUE)),
     force |-> OrElse(cliOptions, "force", OrElse(cfg, "force", FALSE)),
     protectedBranches |-> OrElse(cfg, "protectedBranches", << >>),
     debug |-> OrElse(cliOptions, "debug", OrElse(cfg, "debug", FALSE))]

\* the options a command reads from the object it is given: a key the
\* object lacks is not read from it
WithDefaults(finalOptions) ==
    [k \in DOMAIN BaseOptions |->
        IF k \in DOMAIN finalOptions THEN finalOptions[k] ELSE BaseOptions[k]]

\* the action of clean: loadConfig, mergeOptions, cleanBranches(finalOptions)
CleanAction ==
    /\ cmd = "clean" /\ pc = "cli"
    /\ config' = LoadConfig(configFiles)
    /\ options' = WithDefaults(MergeOptions(Commander("clean", argv), config'))
    /\ pc' = "start"
    /\ UNCHANGED <<cmd, argv, configFiles, origHead, origLocal, origTip,
                   origDirty, switchVars, deleteVars, prompts, repoVars,
                   currentBranch, cleanVars, mergeVars, fetchVars, countVars,
                   gitLog, queries, errorLog, endVars>>

\* the action of merge: the command-line options with ffOnly and debug
MergeAction ==
    /\ cmd = "merge" /\ pc = "cli"
    /\ config' = LoadConfig(configFiles)
    /\ LET cliOptions == Commander("merge", argv) IN
         options' = WithDefaults(Spread(cliOptions,
            [ffOnly |-> OrElse(cliOptions, "ff",
                               OrElse(config', "ffOnly", TRUE)),
             debug |-> OrElse(cliOptions, "debug",
                              OrElse(config', "debug", FALSE))]))
    /\ pc' = "start"
    /\ UNCHANGED <<cmd, argv, configFiles, origHead, origLocal, origTip,
                   origDirty, switchVars, deleteVars, prompts, repoVars,
                   currentBranch, cleanVars, mergeVars, fetchVars, countVars,
                   gitLog, queries, errorLog, endVars>>

\* the action of fetch: the command-line options with force and debug
FetchAction ==
    /\ cmd = "fetch" /\ pc = "cli"
    /\ config' = LoadConfig(configFiles)
    /\ LET cliOptions == Commander("fetch", argv) IN
         options' = WithDefaults(Spread(cliOptions,
            [force |-> OrElse(cliOptions, "force",
                              OrElse(config', "force", FALSE)),
             debug |-> OrElse(cliOptions, "debug",
                              OrElse(config', "debug", FALSE))]))
    /\ pc' = "start"
    /\ UNCHANGED <<cmd, argv, configFiles, origHead, origLocal, origTip,
                   origDirty, switchVars, deleteVars, prompts, repoVars,
                   currentBranch, cleanVars, mergeVars, fetchVars, countVars,
                   gitLog, queries, errorLog, endVars>>

----------------------------------------------------------------------------
(* Initial states of the commands called with an options object *)

CleanInit ==
    /\ cmd = "clean"
    /\ localBranches = Range(SubSeq(CleanPool, 1, MaxBranches))
    /\ upstreamOf \in Upstreams(localBranches)
    /\ remoteHeads \in {[origin |-> S, fork |-> {featureA}] :
                          S \in {{main, featureA}, {featureB}}}
    /\ head \in {main, featureA, Detached}
    /\ dirty \in BOOLEAN /\ unpushed = FALSE
    /\ tip = NoCommitsSince
    /\ \E policy \in {<<(<< >>), DefaultProtected>>,
                      <<(<<featureB>>), DefaultProtected>>,
                      <<(<< >>), <<featureA>>>>,
                      <<(<< >>), << >>>>},
          force \in BOOLEAN, listOnly \in BOOLEAN, silent \in BOOLEAN,
          confirm \in BOOLEAN :
            \* a listing run is started with no other switch than --silent
            /\ listOnly => ~force /\ confirm
            \* a run in a worktree with changes is started on main with
            \* the default policy and no switch
            /\ dirty => /\ head = main /\ policy[1] = << >>
                        /\ policy[2] = DefaultProtected
                        /\ ~force /\ ~listOnly /\ ~silent /\ confirm
            /\ options = [BaseOptions EXCEPT !.ignore = policy[1], !.force = force,
                          !.listOnly = listOnly, !.silent = silent,
                          !.confirm = confirm,
                          !.protectedBranches = policy[2]]
    /\ ProgramInit

MergeInit ==
    /\ cmd = "merge"
    /\ localBranches = Range(SubSeq(MergePool, 1, MaxBranches))
    /\ upstreamOf = TrackingOrigin(localBranches)
    /\ remoteHeads = [origin |-> localBranches, fork |-> {}]
    /\ head \in {main, hotfix, Detached}
    /\ dirty \in BOOLEAN /\ unpushed \in BOOLEAN
    /\ tip \in Tips
    /\ \E source \in {hotfix, nosuch},
          target \in {<< >>, <<dev>>, <<main, dev>>},
          exclude \in {<< >>, <<main>>, <<main, dev>>},
          ffOnly \in BOOLEAN, silent \in BOOLEAN, debug \in BOOLEAN :
            \* a run that its preconditions stop is started with the
            \* defaults, on branches with no new commits
            /\ (dirty \/ unpushed \/ source = nosuch) =>
                   /\ target = << >> /\ exclude = << >> /\ ffOnly /\ ~debug
                   /\ tip = NoCommitsSince
            /\ options = [BaseOptions EXCEPT !.source = source, !.target = target,
                          !.exclude = exclude, !.ffOnly = ffOnly,
                          !.silent = silent, !.debug = debug]
    /\ ProgramInit

FetchInit ==
    /\ cmd = "fetch"
    /\ localBranches = Range(SubSeq(FetchPool, 1, MaxBranches))
    /\ upstreamOf = TrackingOrigin(localBranches)
    /\ remoteHeads \in {[origin |-> S, fork |-> {}] :
                          S \in {{featureA, featureB},
                                 {featureA, featureB, main}, {}}}
    /\ head \in {main, featureA, Detached}
    /\ dirty \in BOOLEAN /\ unpushed = FALSE
    /\ tip = NoCommitsSince
    /\ \E ignore \in {<< >>, <<featureB>>},
          force \in BOOLEAN, silent \in BOOLEAN, debug \in BOOLEAN :
            options = [BaseOptions EXCEPT !.ignore = ignore, !.force = force,
                          !.silent = silent, !.debug = debug]
    /\ ProgramInit

DeleteInit ==
    /\ cmd = "delete"
    /\ localBranches \in {Range(SubSeq(CleanPool, 1, MaxBranches)), {main}}
    /\ upstreamOf = TrackingOrigin(localBranches)
    /\ remoteHeads = [origin |-> localBranches, fork |-> {}]
    /\ head \in {main, Detached}
    /\ dirty = FALSE /\ unpushed = FALSE
    /\ tip = NoCommitsSince
    /\ \E force \in BOOLEAN, multi \in BOOLEAN :
            options = [BaseOptions EXCEPT !.force = force, !.multi = multi]
    /\ ProgramInit

\* bk checkout in a repository of MaxBranches branches or of one branch
SwitchInit ==
    /\ cmd = "switch"
    /\ localBranches \in {Range(SubSeq(CleanPool, 1, MaxBranches)), {main}}
    /\ upstreamOf = TrackingOrigin(localBranches)
    /\ remoteHeads = [origin |-> localBranches, fork |-> {}]
    /\ head \in {main, Detached}
    /\ dirty \in BOOLEAN /\ unpushed = FALSE
    /\ tip = NoCommitsSince
    /\ \E debug \in BOOLEAN : options = [BaseOptions EXCEPT !.debug = debug]
    /\ ProgramInit

\* one call checkoutBranch(branch, options, force)
CheckoutInit ==
    /\ cmd = "checkoutBranch"
    /\ localBranches = Range(SubSeq(CleanPool, 1, MaxBranches))
    /\ upstreamOf = TrackingOrigin(localBranches)
    /\ remoteHeads = [origin |-> localBranches, fork |-> {}]
    /\ head \in {main, Detached}
    /\ dirty \in BOOLEAN /\ unpushed = FALSE
    /\ tip = NoCommitsSince
    /\ \E force \in BOOLEAN : options = [BaseOptions EXCEPT !.force = force]
    /\ ProgramInit

\* what a config file can be
Absent == [state |-> "absent", content |-> EmptyObject]
Malformed == [state |-> "malformed", content |-> EmptyObject]
ParsesToNull == [state |-> "null", content |-> EmptyObject]
Object(content) == [state |-> "object", content |-> content]

\* the working directories a command line is run in: .branchkeeperrc.json,
\* .branchkeeperrc.yaml, .branchkeeperrc.yml, .branchkeeperrc
Directories ==
    <<  <<Absent, Absent, Absent, Absent>>,
        <<Malformed, Absent, Absent, Absent>>,
        <<Absent, Absent, Malformed, Absent>>,
        <<ParsesToNull, Absent, Absent, Absent>>,
        <<Object([protectedBranches |-> <<main, featureA>>]),
          Absent, Absent, Absent>>,
        <<Malformed,
          Object([silent |-> TRUE, confirm |-> FALSE, ignore |-> <<featureB>>,
                  ffOnly |-> FALSE, force |-> TRUE]),
          Absent, Absent>>,
        <<Absent, Absent, Absent, Object([clean |-> [force |-> TRUE]])>>  >>

\* the command lines run
CommandLines(command) ==
    CASE command = "clean" ->
            <<EmptyObject, [silent |-> TRUE], [ignore |-> <<featureA>>],
              [confirm |-> FALSE, force |-> TRUE], [listOnly |-> TRUE]>>
      [] command = "merge" ->
            <<[source |-> hotfix, target |-> <<dev>>],
              [source |-> hotfix, target |-> <<dev>>, ff |-> FALSE]>>
      [] command = "fetch" -> <<EmptyObject, [force |-> TRUE]>>

\* bk clean, bk merge, bk fetch typed in a directory: the action has the
\* options object of commander and has not run yet
CommandLineInit ==
    /\ cmd \in {"clean", "merge", "fetch"}
    /\ pc = "cli"
    /\ localBranches =
          Range(SubSeq(CASE cmd = "clean" -> CleanPool
                         [] cmd = "merge" -> MergePool
                         [] cmd = "fetch" -> FetchPool, 1, MaxBranches))
    /\ upstreamOf = TrackingOrigin(localBranches)
    /\ remoteHeads =
          [origin |-> CASE cmd = "clean" -> {main}
                        [] cmd = "merge" -> localBranches
                        [] cmd = "fetch" -> {featureA, featureB},
           fork |-> {}]
    /\ head = main
    /\ dirty = FALSE /\ unpushed = FALSE
    /\ tip = NoCommitsSince
    /\ \E i \in 1..Len(CommandLines(cmd)) : argv = CommandLines(cmd)[i]
    /\ \E j \in 1..Len(Directories) : configFiles = Directories[j]
    /\ config = EmptyObject
    /\ options = WithDefaults(Commander(cmd, argv))
    /\ FreshRun

Init ==
    \/ (CleanInit \/ MergeInit \/ FetchInit \/ DeleteInit) /\ targetBranch = EmptyString
    \/ SwitchInit /\ targetBranch = EmptyString
    \/ CheckoutInit /\ targetBranch \in {featureA, nosuch}
    \/ CommandLineInit /\ targetBranch = EmptyString

Next ==
    \/ CleanAction
    \/ MergeAction
    \/ FetchAction
    \/ CleanCheckWorkingDirectory
    \/ CleanGetCurrentBranch
    \/ CleanTrackingQuery
    \/ CleanQueryRemote
    \/ CleanPlan
    \/ CleanConfirm
    \/ CleanDeleteItem
    \/ CleanFinish
    \/ MergeCheckWorkingDirectory
    \/ MergeCheckSourceBranch
    \/ MergePlan
    \/ MergeItem
    \/ MergeRestore
    \/ FetchCheckWorkingDirectory
    \/ FetchPlan
    \/ FetchItem
    \/ FetchRestore
    \/ DeleteCheckWorkingDirectory
    \/ DeleteGetBranches
    \/ DeleteSelect
    \/ DeleteConfirm
    \/ DeleteItem
    \/ DeleteFinish
    \/ SwitchCheckWorkingDirectory
    \/ SwitchGetBranches
    \/ SwitchSelect
    \/ SwitchStash
    \/ SwitchCheckout
    \/ CheckoutBranchCall
    \/ FetchPruneEnds

Spec == Init /\ [][Next]_vars

----------------------------------------------------------------------------
(* Properties *)

IsTracked(b) == upstreamOf[b] # EmptyString /\ upstreamOf[b] # NullUpstream

\* the policy of the run does not exempt b
NotExempt(b) ==
    /\ b # currentBranch
    /\ ~Includes(options.ignore, b)
    /\ ~Includes(options.protectedBranches, b)

IsStale(b) ==
    LET remote == Head(upstreamOf[b])
    IN remote \notin DOMAIN remoteHeads \/ Tail(upstreamOf[b]) \notin remoteHeads[remote]

DeletedArgs ==
    {gitLog[i].arg : i \in {k \in 1..Len(gitLog) :
                              gitLog[k].op \in {"branch -d", "branch -D"}}}

IsMerge(c) == c.op \in {"merge --ff-only", "merge --no-ff"}

\* cleanBranches has built its deletion plan
Planned ==
    /\ cmd = "clean"
    /\ \/ pc \in {"confirm", "delete"}
       \/ pc = "done" /\ returnedFrom \in {"cache", "confirm", "delete"}

\* cleanBranches has iterated over all of remotesSet
CacheBuilt == cmd = "clean" /\ ((pc = "cache" /\ remotesSet = << >>) \/ Planned)

\* the executing loop of the command has run to its end
Executed == pc = "done" /\ returnedFrom \in {"delete", "merge", "create"}

C2_ProtectedNeverTargeted ==
    cmd \in {"merge", "fetch"} =>
        \A b \in Range(targetBranches) \cup Range(attempted) :
            ~Includes(options.protectedBranches, b) /\ b # origHead

\* C3: a local branch whose upstream field is empty or "(null)" is never in
\* the deletion plan of clean.
C3_NoUpstreamNeverPlanned ==
    cmd = "clean" =>
        \A b \in Range(branchesToDelete) \cup DeletedArgs : IsTracked(b)

C3_Witness ==
    /\ cmd = "clean" /\ pc = "done" /\ returnedFrom = "delete"
    /\ \E b \in origLocal : upstreamOf[b] = NullUpstream /\ NotExempt(b)
    /\ \E b \in origLocal : upstreamOf[b] = EmptyString /\ NotExempt(b)
    /\ gitLog # << >>

Captured(remote) ==
    IF remote \in DOMAIN remoteBranchMap THEN remoteBranchMap[remote] ELSE {}

\* C4: once the plan is built, a tracked local branch that the policy does
\* not exempt is in the plan exactly when its upstream name without the
\* remote is not in the set captured for that remote; with feature/a on
\* origin and feature/b not, feature/b is planned and feature/a is not, and
\* with main current the plan is [feature/b].
C4_PlannedIffAbsent ==
    Planned =>
        /\ \A b \in origLocal :
             IsTracked(b) /\ NotExempt(b) =>
                (Includes(branchesToDelete, b) <=>
                    Tail(upstreamOf[b]) \notin Captured(Head(upstreamOf[b])))
        /\ ( /\ {featureA, featureB} \subseteq origLocal
             /\ \A b \in {featureA, featureB} :
                    upstreamOf[b] = <<"origin">> \o b /\ NotExempt(b)
             /\ featureA \in remoteHeads["origin"]
             /\ featureB \notin remoteHeads["origin"]
             /\ "ls-remote failed" \notin errorLog )
           => /\ Includes(branchesToDelete, featureB)
              /\ ~Includes(branchesToDelete, featureA)
              /\ (origLocal = {main, featureA, featureB} /\ currentBranch = main
                    => branchesToDelete = <<featureB>>)

C4_Witness ==
    /\ Planned /\ pc = "done" /\ returnedFrom = "delete"
    /\ origLocal = {main, featureA, featureB}
    /\ \A b \in origLocal : upstreamOf[b] = <<"origin">> \o b
    /\ remoteHeads["origin"] = {main, featureA}
    /\ currentBranch = main /\ options.ignore = << >>
    /\ options.protectedBranches = DefaultProtected
    /\ branchesToDelete = <<featureB>>
    /\ localBranches = {main, featureA}

TrackedRemotes == {Head(upstreamOf[b]) : b \in {x \in origLocal : IsTracked(x)}}

IsPrefix(a, b) == Len(a) <= Len(b) /\ a = SubSeq(b, 1, Len(a))

\* the items the executing loop of the command is to handle
PlanItems ==
    LET NotIgnored(b) == ~Includes(options.ignore, b)
    IN CASE cmd = "clean" -> branchesToDelete
         [] cmd = "merge" -> targetBranches
         [] cmd = "fetch" -> SelectSeq(remoteBranches, NotIgnored)
         [] cmd = "delete" -> selectedBranches

\* C6: in each batch every planned item is attempted once, in order, whatever
\* fails: the counts add up to the items attempted so far, and at the end
\* of the loop to the whole plan.
C6_CountsAddUp ==
    (pc \in {"delete", "merge", "create"} \/ Executed) =>
        /\ successCount + failCount = Len(attempted)
        /\ IsPrefix(attempted, PlanItems)
        /\ Executed => attempted = PlanItems

C6_Witness ==
    /\ cmd = "clean" /\ Executed
    /\ Len(branchesToDelete) >= 2
    /\ ~gitLog[1].ok /\ gitLog[2].ok
    /\ successCount >= 1 /\ failCount >= 1

\* C7 (as claimed): after a merge or fetch run that got past state capture,
\* the checked-out branch is the one checked out before the run, or the
\* failure to return was logged; also for a detached HEAD and when the
\* current-branch query failed.
C7_RestoredOrLogged ==
    ( /\ cmd \in {"merge", "fetch"}
      /\ pc = "done" /\ returnedFrom \in {"capture", "merge", "create"} )
    => \/ head = origHead
       \/ "return to original branch failed" \in errorLog

\* C8 (as claimed): each merge command of mergeToBranches runs with the
\* target item checked out and merges the source branch.
C8_MergesSourceIntoTarget ==
    cmd = "merge" =>
        \A i \in 1..Len(gitLog) :
            IsMerge(gitLog[i]) =>
                /\ gitLog[i].arg = options.source
                /\ gitLog[i].head \in Range(targetBranches)
                /\ i = Len(gitLog) => gitLog[i].head = attempted[Len(attempted)]

PreconditionFailures ==
    {"not a repository", "uncommitted changes", "source missing",
     "source unpushed", "tracking query failed", "branch list failed"}

\* C9: when a precondition or planning step failed, the run has ended and
\* no mutating git command was issued.
C9_AbortBeforeMutation ==
    errorLog \cap PreconditionFailures # {} => pc = "done" /\ gitLog = << >>

C9_Witness ==
    /\ cmd = "merge" /\ pc = "done"
    /\ "branch list failed" \in errorLog
    /\ gitLog = << >>

\* C10: a failed dirty-worktree query counts as dirty and a failed
\* unpushed-commit query as unpushed: the run ends with no mutation.
C10_FailedQueryFailsSafe ==
    /\ "status query failed" \in errorLog =>
          /\ "uncommitted changes" \in errorLog
          /\ pc = "done" /\ gitLog = << >>
    /\ "unpushed query failed" \in errorLog =>
          /\ "source unpushed" \in errorLog
          /\ pc = "done" /\ gitLog = << >>

C10_Witness ==
    /\ cmd = "merge" /\ pc = "done" /\ ~dirty /\ ~unpushed
    /\ "unpushed query failed" \in errorLog
    /\ returnedFrom = "source"

IsMergeCommit(c) == Len(c) >= 1 /\ c[1] = "merge"

\* when the run started, neither b nor the source could be fast-forwarded to
\* the other
Diverged(b) ==
    /\ ~(origTip[b] \subseteq origTip[options.source])
    /\ ~(origTip[options.source] \subseteq origTip[b])

\* with ffOnly every merge command carries --ff-only and no branch tip
\* reaches a merge commit
C11_NoMergeCommit ==
    (cmd = "merge" /\ options.ffOnly) =>
        /\ \A b \in Range(RefOrder) : \A c \in tip[b] : ~IsMergeCommit(c)
        /\ \A i \in 1..Len(gitLog) : gitLog[i].op # "merge --no-ff"

\* with ffOnly a target that has diverged from the source keeps its tip and
\* its merge command fails: it is counted as failed
C11_DivergedTargetFails ==
    (cmd = "merge" /\ options.ffOnly) =>
        /\ \A b \in Range(attempted) : Diverged(b) => tip[b] = origTip[b]
        /\ \A i \in 1..Len(gitLog) :
              ( /\ IsMerge(gitLog[i])
                /\ Diverged(gitLog[i].arg) \/ (gitLog[i].head \in Range(attempted)
                                                 /\ Diverged(gitLog[i].head)) )
              => ~gitLog[i].ok
        /\ failCount >=
              Cardinality({i \in 1..Len(attempted) : Diverged(attempted[i])})

\* C11 (as claimed): with ffOnly no merge of mergeToBranches creates a merge
\* commit; a target that cannot be fast-forwarded to the source is left
\* unchanged and counted as failed; and the run that had such a target still
\* ends on the branch it started on, or logs that it could not return.
C11_FastForwardOnly ==
    /\ C11_NoMergeCommit
    /\ C11_DivergedTargetFails
    /\ ( /\ cmd = "merge" /\ options.ffOnly /\ Executed
          /\ \E b \in Range(attempted) : Diverged(b) )
        => \/ head = origHead
           \/ "return to original branch failed" \in errorLog

\* mergeToBranches has built its target list
MergePlanned ==
    /\ cmd = "merge"
    /\ \/ pc = "merge"
       \/ pc = "done" /\ returnedFrom = "merge"
       \/ pc = "done" /\ returnedFrom = "capture"
                      /\ "branch list failed" \notin errorLog

\* the local branches in listing order without the source and the excluded
DefaultTargets ==
    LET Kept(b) == /\ b \in origLocal
                   /\ b # options.source
                   /\ \A i \in 1..Len(options.exclude) : options.exclude[i] # b
    IN SelectSeq(RefOrder, Kept)

\* C12: with an empty explicit target list the merge targets are the local
\* branches in listing order without the source and without every excluded
\* branch ({main, dev, hotfix}, source hotfix, exclude [main] gives [dev]);
\* with an empty resulting list the run ends with no checkout and no merge.
C12_DefaultTargets ==
    MergePlanned =>
        /\ options.target = << >> =>
              /\ targetBranches = DefaultTargets
              /\ ( /\ origLocal = {main, dev, hotfix}
                    /\ options.source = hotfix
                    /\ options.exclude = <<main>> )
                  => targetBranches = <<dev>>
        /\ targetBranches = << >> => pc = "done" /\ gitLog = << >>

C12_Witness ==
    /\ MergePlanned /\ Executed
    /\ options.target = << >>
    /\ origLocal = {main, dev, hotfix}
    /\ options.source = hotfix /\ options.exclude = <<main>>
    /\ targetBranches = <<dev>>
    /\ \E i \in 1..Len(gitLog) : IsMerge(gitLog[i])

\* the commands of createTrackingBranch in the log
IsCreateStep(c) == c.op \in {"branch -D", "checkout -b"}

\* a remote branch that fetch without force is to leave alone
FetchSkips(b) == Includes(options.ignore, b) \/ b \in origLocal

\* C13: in fetch without force, a remote branch that is ignored or that
\* exists locally is not deleted, not created and not checked out; with
\* remote {feature/a, feature/b}, ignore [feature/b] and feature/a local, no
\* tracking branch is created and the local branches stay as they were.
C13_SkippedNotTouched ==
    (cmd = "fetch" /\ ~options.force) =>
        /\ origLocal \subseteq localBranches
        /\ \A b \in localBranches \ origLocal : ~Includes(options.ignore, b)
        /\ \A i \in 1..Len(gitLog) :
              /\ gitLog[i].op # "branch -D"
              /\ IsCreateStep(gitLog[i]) =>
                    /\ ~Includes(options.ignore, gitLog[i].arg)
                    /\ FetchSkips(gitLog[i].arg) => ~gitLog[i].ok
        /\ pc = "create" => head = origHead \/ ~FetchSkips(head)
        /\ ( /\ remoteHeads[options.remote] = {featureA, featureB}
              /\ options.ignore = <<featureB>>
              /\ featureA \in origLocal )
            => /\ localBranches = origLocal /\ head = origHead
               /\ \A i \in 1..Len(gitLog) :
                     IsCreateStep(gitLog[i]) => ~gitLog[i].ok

C13_Witness ==
    /\ cmd = "fetch" /\ ~options.force /\ Executed
    /\ remoteHeads[options.remote] = {featureA, featureB}
    /\ options.ignore = <<featureB>> /\ featureA \in origLocal
    /\ remoteBranches = <<featureA, featureB>>
    /\ attempted = <<featureA>> /\ successCount = 1 /\ failCount = 0
    /\ Len(gitLog) = 1 /\ gitLog[1].op = "checkout"

\* the command that follows command i of the log re-creates the same branch
CreateFollows(i) ==
    /\ i < Len(gitLog)
    /\ gitLog[i + 1].op = "checkout -b"
    /\ gitLog[i + 1].arg = gitLog[i].arg

\* C14: in fetch with force, `git branch -D` is issued only for a
\* non-ignored branch that exists locally; a successful delete is followed at
\* once by the `git checkout -b` of the same branch, and a local branch is
\* re-created only after its delete succeeded; a failed delete is followed
\* by no create, and the item is counted as failed.
C14_DeleteThenCreate ==
    (cmd = "fetch" /\ options.force) =>
        /\ \A i \in 1..Len(gitLog) :
              /\ gitLog[i].op = "branch -D" =>
                    /\ gitLog[i].arg \in origLocal
                    /\ ~Includes(options.ignore, gitLog[i].arg)
                    /\ gitLog[i].ok <=> CreateFollows(i)
              /\ ( /\ gitLog[i].op = "checkout -b" /\ gitLog[i].ok
                    /\ gitLog[i].arg \in origLocal )
                  => /\ i > 1 /\ gitLog[i - 1].op = "branch -D"
                     /\ gitLog[i - 1].arg = gitLog[i].arg /\ gitLog[i - 1].ok
        /\ (pc = "create" \/ Executed) =>
              failCount = Cardinality({i \in 1..Len(gitLog) :
                              IsCreateStep(gitLog[i]) /\ ~gitLog[i].ok})

C14_Witness ==
    /\ cmd = "fetch" /\ options.force /\ Executed
    /\ \E i \in 1..Len(gitLog) :
         /\ gitLog[i].op = "branch -D" /\ gitLog[i].ok
         /\ CreateFollows(i) /\ gitLog[i + 1].ok
    /\ \E i \in 1..Len(gitLog) :
         /\ gitLog[i].op = "branch -D" /\ ~gitLog[i].ok /\ ~CreateFollows(i)
    /\ failCount = 1 /\ successCount >= 1

\* a prompt was answered with no, or interrupted
Cancelled == \E i \in 1..Len(prompts) : prompts[i] \in {"no", "interrupt"}

\* C15: in clean and in the interactive delete, a run whose prompt was
\* declined has ended with no branch deleted; and once the first delete is
\* issued the run stays in its loop until every planned item was attempted:
\* no prompt and no cancellation point comes after it.
C15_CancelOnlyBeforeExecuting ==
    cmd \in {"clean", "delete"} =>
        /\ Cancelled =>
              /\ pc = "done" /\ attempted = << >> /\ DeletedArgs = {}
              /\ localBranches = origLocal
        /\ attempted # << >> =>
              /\ ~Cancelled
              /\ pc \in {"delete", "done"}
              /\ pc = "done" =>
                    returnedFrom = "delete" /\ attempted = PlanItems

C15_Witness ==
    /\ cmd = "clean" /\ pc = "done"
    /\ prompts = <<"no">>
    /\ Len(branchesToDelete) >= 1
    /\ gitLog = << >> /\ localBranches = origLocal

\* C16 (as claimed): in clean with silent, with force or with confirm =
\* false, no prompt is shown: a non-empty plan goes to deletion directly.
C16_AutoApproved ==
    (cmd = "clean" /\ (options.silent \/ options.force \/ ~options.confirm))
    => pc # "confirm" /\ prompts = << >>

C18_FailureExitsWithOne ==
    ( /\ cmd \in {"clean", "delete"} /\ pc = "done"
      /\ "not a repository" \in errorLog \/ Cancelled )
    => exitCode = Exit1

\* C19 (as claimed): no two git commands are in flight at once and the
\* process has not ended while a git command it started is still running.
C19_AwaitedOneAtATime ==
    /\ Cardinality(inFlight) <= 1
    /\ pc = "done" => inFlight = {}

\* the commands of the executing loop that failed: all but the last command
\* of a merge or fetch run that reached its end
FailedInLoop ==
    {i \in 1..(Len(gitLog) - 1) : ~gitLog[i].ok}

\* a failed checkout back to the original branch is logged, the function
\* returns, and the counts are those of the loop
C20_RestoreFailureLogged ==
    (cmd \in {"merge", "fetch"} /\ Executed) =>
        /\ gitLog[Len(gitLog)].op = "checkout"
        /\ ~gitLog[Len(gitLog)].ok =>
              "return to original branch failed" \in errorLog
        /\ exitCode = Returned
        /\ failCount = Cardinality(FailedInLoop)
        /\ successCount = Len(attempted) - failCount
        /\ summary.printed =>
              summary.succeeded = successCount /\ summary.failed = failCount

\* C20 (as claimed): a failed best-effort step, the checkout back to the
\* original branch or the `git fetch -p` refresh of clean, is logged and
\* changes neither the counts reported nor how the command ends.
C20_BestEffortFailureLogged ==
    /\ C20_RestoreFailureLogged
    /\ cmd = "clean" =>
          \A i \in 1..Len(gitLog) :
              gitLog[i].op = "fetch -p" =>
                  /\ ~gitLog[i].ok => "refresh failed" \in errorLog
                  /\ exitCode = Exit0
                  /\ summary = Summary(successCount, failCount)

\* C21 (as claimed): a clean, merge or fetch run that executed at least one
\* planned item has emitted the summary with the succeeded and failed
\* counts, whatever debug and silent are.
C21_SummaryAlwaysEmitted ==
    ( /\ cmd \in {"clean", "merge", "fetch"}
      /\ Executed /\ attempted # << >> )
    => summary = Summary(successCount, failCount)

\* the listing query of the remote was issued and failed
QueryFailed(remote) ==
    /\ remote \in DOMAIN remoteBranchMap
    /\ remoteBranchMap[remote] = {}
    /\ remoteHeads[remote] # {}

\* C22: in clean, a branch is not a member of a remote whose listing query
\* failed or that was not queried, so every tracked branch that the policy
\* does not exempt and whose remote's listing failed is in the plan.
C22_FailedListingPlansAll ==
    cmd = "clean" =>
        /\ \A b \in origLocal :
              ( /\ IsTracked(b)
                /\ \/ QueryFailed(Head(upstreamOf[b]))
                   \/ Head(upstreamOf[b]) \notin DOMAIN remoteBranchMap )
              => ~ExistsOnRemote(upstreamOf[b], remoteBranchMap)
        /\ Planned =>
              \A b \in origLocal :
                  ( /\ IsTracked(b) /\ NotExempt(b)
                    /\ QueryFailed(Head(upstreamOf[b])) )
                  => Includes(branchesToDelete, b)
        /\ (\E r \in DOMAIN remoteBranchMap : QueryFailed(r))
              <=> "ls-remote failed" \in errorLog

C22_Witness ==
    /\ cmd = "clean" /\ Executed
    /\ QueryFailed("origin")
    /\ \E b \in origLocal :
         /\ IsTracked(b) /\ Head(upstreamOf[b]) = "origin"
         /\ Tail(upstreamOf[b]) \in remoteHeads["origin"]
         /\ Includes(branchesToDelete, b)
         /\ b \notin localBranches

\* the position of branch b in the tracking-pair listing
TrackingPos(b) ==
    CHOOSE i \in 1..Len(trackingBranches) : trackingBranches[i][1] = b

\* the tracking-pair listing without the exempt branches and without those
\* whose upstream name was captured
StalePairs ==
    LET Stale(pair) ==
            /\ NotExempt(pair[1])
            /\ Tail(pair[2]) \notin Captured(Head(pair[2]))
    IN SelectSeq(trackingBranches, Stale)

\* C23: the deletion plan keeps the order of the tracking-pair listing; it
\* stays what planning made it while the deletes run; and the deletes are
\* issued one per step in plan order, item i+1 after item i has returned.
C23_PlanOrderKept ==
    (cmd = "clean" /\ Planned) =>
        /\ \A i, j \in 1..Len(branchesToDelete) :
              i < j => TrackingPos(branchesToDelete[i])
                          < TrackingPos(branchesToDelete[j])
        /\ branchesToDelete = [i \in 1..Len(StalePairs) |-> StalePairs[i][1]]
        /\ idx = Len(attempted) + 1
        /\ attempted = SubSeq(branchesToDelete, 1, idx - 1)
        /\ Len(gitLog) >= Len(attempted)
        /\ \A i \in 1..Len(attempted) :
              /\ gitLog[i].op \in {"branch -d", "branch -D"}
              /\ gitLog[i].arg = branchesToDelete[i]

C23_Witness ==
    /\ cmd = "clean" /\ Executed
    /\ branchesToDelete = <<featureA, featureB>>
    /\ gitLog[1].arg = featureA /\ gitLog[1].ok
    /\ gitLog[2].arg = featureB /\ gitLog[2].ok
    /\ localBranches = origLocal \ {featureA, featureB}

\* every command of the log belongs to an item of the loop: in fetch a
\* delete or a create, in merge a checkout with the merge that follows it
ItemCommandsOnly(issued) ==
    \A i \in 1..Len(issued) :
        IF cmd = "fetch" THEN IsCreateStep(issued[i])
        ELSE \/ /\ IsMerge(issued[i])
                /\ i > 1 /\ issued[i - 1].op = "checkout" /\ issued[i - 1].ok
             \/ /\ issued[i].op = "checkout"
                /\ issued[i].ok => i < Len(issued) /\ IsMerge(issued[i + 1])

\* C30: in merge and fetch no command is issued before the executing loop;
\* while the loop runs only item commands are issued; a run that reached
\* the end of its loop has issued one checkout back, as its last command,
\* after every planned item; a run that ended earlier issued none.
C30_PhasesInOrder ==
    cmd \in {"merge", "fetch"} =>
        /\ gitLog # << >> => pc \in {"merge", "create", "done"}
        /\ pc \in {"merge", "create"} =>
              ItemCommandsOnly(gitLog) /\ exitCode = NoExit
        /\ Executed =>
              /\ attempted = PlanItems
              /\ Len(gitLog) >= 1
              /\ gitLog[Len(gitLog)].op = "checkout"
              /\ gitLog[Len(gitLog)].arg = currentBranch
              /\ ItemCommandsOnly(SubSeq(gitLog, 1, Len(gitLog) - 1))
        /\ (pc = "done" /\ ~Executed) => gitLog = << >>

C30_Witness ==
    /\ cmd = "merge" /\ Executed
    /\ Len(attempted) = 2 /\ Len(gitLog) = 5
    /\ IsMerge(gitLog[2]) /\ IsMerge(gitLog[4])
    /\ gitLog[5].op = "checkout" /\ gitLog[5].ok
    /\ head = origHead

C25_StashPoppedAfterSwitch ==
    (cmd = "switch" /\ pc = "done" /\ checkoutSuccess) => stash = 0

\* the run started from a command line
ViaCommandLine == configFiles # << >>

\* the config files that exist and parse
ParsedFiles ==
    {i \in 1..Len(configFiles) :
        configFiles[i].state \notin {"absent", "malformed"}}

\* a config file holding an object was the one loaded
ObjectLoaded ==
    /\ ViaCommandLine /\ pc # "cli"
    /\ ParsedFiles # {}
    /\ \E i \in ParsedFiles :
         /\ \A j \in ParsedFiles : i <= j
         /\ configFiles[i].state = "object"

\* the object of the config file loaded
LoadedContent ==
    configFiles[CHOOSE i \in ParsedFiles : \A j \in ParsedFiles : i <= j].content

\* what the config file says for key, the default where it says nothing
FileValue(key) ==
    IF ObjectLoaded /\ key \in DOMAIN LoadedContent
    THEN LoadedContent[key] ELSE DEFAULT_CONFIG[key]

\* C26: loadConfig does not throw on a malformed file: the action of the
\* command can always run, and with no config file, or only files that
\* cannot be parsed, the config is DEFAULT_CONFIG; a file that cannot be
\* parsed does not hide a later one that can.
C26_MalformedFallsBack ==
    /\ pc = "cli" => ENABLED (CleanAction \/ MergeAction \/ FetchAction)
    /\ (ViaCommandLine /\ pc # "cli") =>
          /\ DOMAIN config # {}
          /\ (\A i \in 1..Len(configFiles) :
                 configFiles[i].state \in {"absent", "malformed"})
               => /\ DOMAIN config = DOMAIN DEFAULT_CONFIG
                  /\ config = DEFAULT_CONFIG
          /\ ObjectLoaded => DOMAIN config # DOMAIN DEFAULT_CONFIG

C26_Witness ==
    /\ ViaCommandLine /\ cmd = "clean" /\ Executed
    /\ configFiles[1].state = "malformed"
    /\ \A i \in 2..Len(configFiles) : configFiles[i].state = "absent"
    /\ DOMAIN config = DOMAIN DEFAULT_CONFIG
    /\ config = DEFAULT_CONFIG
    /\ options.protectedBranches = DefaultProtected

\* C27 (as claimed): when a well-formed config file is loaded, every key of
\* DEFAULT_CONFIG is in the returned config, with the file's value if the
\* file sets it and the DEFAULT_CONFIG value otherwise.
C27_DefaultsFillUnsetKeys ==
    ObjectLoaded =>
        \A k \in DOMAIN DEFAULT_CONFIG :
            /\ k \in DOMAIN config
            /\ config[k] = FileValue(k)

\* C28 (as claimed): a branch listed in protectedBranches of the config
\* file loaded is in the policy of clean and is not in its deletion plan.
C28_FileProtectedNeverPlanned ==
    ( /\ cmd = "clean" /\ ObjectLoaded
      /\ "protectedBranches" \in DOMAIN LoadedContent )
    => \A b \in Range(LoadedContent.protectedBranches) :
          /\ Includes(options.protectedBranches, b)
          /\ ~Includes(branchesToDelete, b)

\* C29 (as claimed): an option given on the command line has the
\* command line's value in the merged options, and one not given there has
\* the config file's value.
C29_CommandLineOverridesFile ==
    (ViaCommandLine /\ pc # "cli") =>
        /\ cmd = "clean" =>
              \A k \in {"silent", "ignore", "listOnly", "confirm", "force"} :
                  options[k] = IF k \in DOMAIN argv THEN argv[k]
                               ELSE FileValue(k)
        /\ cmd = "merge" =>
              options.ffOnly = IF "ff" \in DOMAIN argv THEN argv.ff
                               ELSE FileValue("ffOnly")
        /\ cmd = "fetch" =>
              options.force = IF "force" \in DOMAIN argv THEN argv.force
                              ELSE FileValue("force")

\* C31 (as claimed): a switchBranch run never issues git reset --hard.
C31_SwitchNeverResets ==
    cmd = "switch" =>
        \A i \in 1..Len(gitLog) : gitLog[i].op # "reset --hard"

\* C32 (as claimed): a mergeToBranches run leaves the source branch where
\* it was: its tip is the tip it had when the run started.
C32_SourceBranchUnchanged ==
    (cmd = "merge" /\ options.source \in origLocal) =>
        tip[options.source] = origTip[options.source]

\* C33 (as claimed): after a fetchAllBranches run with force = true every
\* local branch that existed before the run exists.
C33_ForceKeepsLocalBranches ==
    (cmd = "fetch" /\ options.force /\ pc = "done") =>
        origLocal \subseteq localBranches

\* the branches git checkout -b created during the run
CreatedBranches ==
    {gitLog[i].arg : i \in {j \in 1..Len(gitLog) :
                               gitLog[j].op = "checkout -b" /\ gitLog[j].ok}}

\* C36 (as claimed): at the end of a fetchAllBranches run the succeeded
\* count is the number of tracking branches created during the run.
C36_SucceededCountsCreated ==
    (cmd = "fetch" /\ Executed) =>
        successCount = Cardinality(CreatedBranches)

\* C37 (as claimed): deleteBranches issues no delete for the branch that
\* is checked out when the delete is issued.
C37_CurrentNeverDeleted ==
    cmd = "delete" =>
        \A i \in 1..Len(gitLog) :
            gitLog[i].op \in {"branch -d", "branch -D"}
                => gitLog[i].arg # gitLog[i].head

\* C38 (as claimed): in cleanBranches the branch that is checked out is
\* not in the deletion plan, also when the current-branch query failed.
C38_CheckedOutNeverPlanned ==
    (cmd = "clean" /\ Planned) => ~Includes(branchesToDelete, head)

C35_CleanTouchesNoWorktree ==
    cmd = "clean" =>
        /\ head = origHead /\ dirty = origDirty /\ stash = 0
        /\ \A b \in localBranches : tip[b] = origTip[b]
        /\ \A i \in 1..Len(gitLog) :
              /\ gitLog[i].op \in {"branch -d", "branch -D", "fetch -p"}
              /\ gitLog[i].head = origHead

C35_Witness ==
    /\ cmd = "clean" /\ Executed /\ origDirty /\ dirty
    /\ head = origHead
    /\ \E i \in 1..Len(gitLog) :
         gitLog[i].op = "branch -d" /\ gitLog[i].ok
    /\ \E i \in 1..Len(gitLog) : gitLog[i].op = "fetch -p"

====
